---- MODULE Spec2Model ----
(***************************************************************************)
(* Model of the feature-embedding and similarity-retrieval subsystem:      *)
(*   src/src/models/code_embeddings.py      (class CodeEmbedder)           *)
(*   src/src/evaluation/embedding_analyzer.py (class EmbeddingAnalyzer)    *)
(*                                                                         *)
(* Conventions of the model                                                *)
(*  - A function node (ast.FunctionDef) is a record: its name, the number  *)
(*    of positional parameters (len(node.args.args)), whether it has a     *)
(*    *args / **kwargs parameter, the number of statements of its body and *)
(*    `walk`: the classes of the nodes ast.walk(node) yields, in the order *)
(*    it yields them, restricted to the classes the code tests for.        *)
(*  - The feature string ' '.join(features) is kept as the sequence of its *)
(*    tokens; JoinSpace gives the Python string (the md5 input).  No token *)
(*    holds a space, so the token sequence is what the vectorizer's        *)
(*    tokenizer reads back from the string.                                *)
(*  - Row indices are 1-based (Python's idx + 1).                          *)
(*  - Floats: quality scores are in tenths (9 is 0.9); tf-idf weights are  *)
(*    fixed-point with Scale = 1000; similarities are in units of 1/Scale^2*)
(***************************************************************************)
EXTENDS Integers, Sequences, FiniteSets, TLC

VARIABLES
    function_database,  \* self.function_database: insertion-ordered dict, as a
                        \* sequence of [key, value] in insertion order
    is_fitted,          \* self.is_fitted: "absent" (attribute never set) or "True"
    vocabulary_,        \* self.vectorizer.vocabulary_: the fitted terms
    idf_,               \* self.vectorizer.idf_: term -> idf weight (fixed-point)
    embedding_vectors,  \* self.embedding_vectors: sequence of sparse rows
    set_order,          \* iteration order of a Python set of the operation
                        \* tokens in this process (fixed by the string hash seed)
    last,               \* the last call: its name, arguments and outcome
    fit_snapshot        \* history: the keys and feature strings of function_database
                        \* as the last successful fit read them

vars == <<function_database, is_fitted, vocabulary_, idf_, embedding_vectors,
          set_order, last, fit_snapshot>>

-----------------------------------------------------------------------------
(* Bounds of the model *)

MaxTopK == 3

(* Program constants *)

max_features == 1000
Scale == 1000

-----------------------------------------------------------------------------
(* Sequence helpers *)

Range(s) == {s[i] : i \in 1..Len(s)}

Count(s, x) == Cardinality({i \in 1..Len(s) : s[i] = x})

Reverse(s) == [i \in 1..Len(s) |-> s[Len(s) + 1 - i]]

RECURSIVE SumSeq(_)
SumSeq(s) == IF s = <<>> THEN 0 ELSE Head(s) + SumSeq(Tail(s))

RECURSIVE JoinSpace(_)
JoinSpace(tokens) ==
    IF tokens = <<>> THEN ""
    ELSE IF Len(tokens) = 1 THEN tokens[1]
    ELSE tokens[1] \o " " \o JoinSpace(Tail(tokens))

-----------------------------------------------------------------------------
(* Function nodes given to the embedder *)

calculate_total ==
    [name |-> "calculate_total", nargs |-> 1, vararg |-> FALSE, kwarg |-> FALSE,
     nbody |-> 3, walk |-> <<"Assign", "For", "Return", "AugAssign", "BinOp">>]

compute_order_summary ==
    [name |-> "compute_order_summary", nargs |-> 1, vararg |-> FALSE, kwarg |-> FALSE,
     nbody |-> 3, walk |-> <<"Assign", "For", "Return", "If", "AugAssign">>]

\* def filter_query_orders(a, b): pass
filter_query_orders_2 ==
    [name |-> "filter_query_orders", nargs |-> 2, vararg |-> FALSE, kwarg |-> FALSE,
     nbody |-> 1, walk |-> <<>>]

\* def filter_query_orders(a, b, c, d, e, f):
\*     for x in a:
\*         for y in b:
\*             while c > d:
\*                 return e
\*     return f
filter_query_orders_6 ==
    [name |-> "filter_query_orders", nargs |-> 6, vararg |-> FALSE, kwarg |-> FALSE,
     nbody |-> 2, walk |-> <<"For", "Return", "For", "While", "Compare", "Return">>]

Nodes == {calculate_total, compute_order_summary,
          filter_query_orders_2, filter_query_orders_6}

QualityScores == {9, 10}

TopKs == 0..MaxTopK

\* The orders in which a process may iterate a set of the operation tokens.
SetOrders ==
    { <<"operation_call", "operation_assign", "operation_aug_assign",
        "operation_compare", "operation_math", "operation_subscript">>,
      <<"operation_subscript", "operation_math", "operation_compare",
        "operation_aug_assign", "operation_assign", "operation_call">> }

-----------------------------------------------------------------------------
(* CodeEmbedder: feature extraction *)

OperationToken(class) ==
    CASE class = "Call"      -> "operation_call"
      [] class = "Assign"    -> "operation_assign"
      [] class = "AugAssign" -> "operation_aug_assign"
      [] class = "Compare"   -> "operation_compare"
      [] class = "BinOp"     -> "operation_math"
      [] class = "Subscript" -> "operation_subscript"

OperationClasses == {"Call", "Assign", "AugAssign", "Compare", "BinOp", "Subscript"}

\* a plausible slip: an order that changes from call to call with the database
ListOfSetUnstable(operations) ==
    IF Len(function_database) % 2 = 0
    THEN SelectSeq(set_order, LAMBDA t : t \in operations)
    ELSE Reverse(SelectSeq(set_order, LAMBDA t : t \in operations))

\* list(operations): the elements of the set in the process's iteration order
ListOfSet(operations) == SelectSeq(set_order, LAMBDA t : t \in operations)

extract_operations(node) ==
    LET operations == {OperationToken(c) : c \in Range(node.walk) \cap OperationClasses}
    IN  ListOfSet(operations)

\* a plausible slip: the counts compared with >= where the code has >
extract_complexity_features_at_least(node) ==
    LET if_counts    == Count(node.walk, "If")
        for_counts   == Count(node.walk, "For")
        while_counts == Count(node.walk, "While")
    IN  (IF if_counts >= 3 THEN <<"High_conditional_complexity">> ELSE <<>>)
        \o (IF for_counts + while_counts >= 2 THEN <<"High_loop_complexity">> ELSE <<>>)

extract_complexity_features(node) ==
    LET if_counts    == Count(node.walk, "If")
        for_counts   == Count(node.walk, "For")
        while_counts == Count(node.walk, "While")
    IN  (IF if_counts > 3 THEN <<"High_conditional_complexity">> ELSE <<>>)
        \o (IF for_counts + while_counts > 2 THEN <<"High_loop_complexity">> ELSE <<>>)

\* a plausible slip: any number of return statements reported as a single one
extract_return_pattern_no_multiple(node) ==
    LET return_nodes == Count(node.walk, "Return")
    IN  IF return_nodes = 0 THEN "return_none" ELSE "return_single"

extract_return_pattern(node) ==
    LET return_nodes == Count(node.walk, "Return")
    IN  IF return_nodes = 0 THEN "return_none"
        ELSE IF return_nodes = 1 THEN "return_single"
        ELSE "return_multiple"

extract_code_features(function_node) ==
    << "func_" \o function_node.name, "args_" \o ToString(function_node.nargs) >>
    \o extract_operations(function_node)
    \o extract_complexity_features(function_node)
    \o << extract_return_pattern(function_node) >>

\* hashlib.md5(features.encode()).hexdigest()[:8] on the feature strings of Nodes
md5_hexdigest_8(text) ==
    CASE text = "func_calculate_total args_1 operation_assign operation_aug_assign operation_math return_single"
             -> "00e964c0"
      [] text = "func_calculate_total args_1 operation_math operation_aug_assign operation_assign return_single"
             -> "de10fb83"
      [] text = "func_compute_order_summary args_1 operation_assign operation_aug_assign return_single"
             -> "2a71f436"
      [] text = "func_compute_order_summary args_1 operation_aug_assign operation_assign return_single"
             -> "bdd955b0"
      [] text = "func_filter_query_orders args_2 return_none"
             -> "2ae9ef40"
      [] text = "func_filter_query_orders args_6 operation_compare High_loop_complexity return_multiple"
             -> "2ae9ef40"

FunctionId(function_node, features) ==
    function_node.name \o "_" \o md5_hexdigest_8(JoinSpace(features))

-----------------------------------------------------------------------------
(* The insertion-ordered dict *)

DictKeys(d) == [i \in 1..Len(d) |-> d[i].key]

DictHas(d, key) == \E i \in 1..Len(d) : d[i].key = key

DictGet(d, key) == d[CHOOSE i \in 1..Len(d) : d[i].key = key].value

\* d[key] = value: a new key goes last, an existing key keeps its position
DictSet(d, key, value) ==
    IF DictHas(d, key)
    THEN [i \in 1..Len(d) |-> IF d[i].key = key THEN [key |-> key, value |-> value] ELSE d[i]]
    ELSE Append(d, [key |-> key, value |-> value])


-----------------------------------------------------------------------------
(* TfidfVectorizer(max_features=1000, stop_words='english', ngram_range=(1,2)) *)
(* and cosine_similarity, as the embedder uses them                            *)

\* lowercase=True, on the tokens extract_code_features produces (function
\* names of Nodes are lower case already)
Lower(token) ==
    CASE token = "High_conditional_complexity" -> "high_conditional_complexity"
      [] token = "High_loop_complexity"        -> "high_loop_complexity"
      [] OTHER                                 -> token

\* some of the words of the 'english' stop list; a feature token is never one
stop_words == {"the", "and", "call", "none", "first", "system"}

\* token_pattern (two or more word characters), lowercased, stop words removed
Tokenize(doc) ==
    SelectSeq([i \in 1..Len(doc) |-> Lower(doc[i])], LAMBDA t : t \notin stop_words)

\* ngram_range=(1,2): the unigrams, then the bigrams of adjacent tokens
WordNgrams(tokens) ==
    tokens \o [i \in 1..(Len(tokens) - 1) |-> tokens[i] \o " " \o tokens[i + 1]]

Analyze(doc) == WordNgrams(Tokenize(doc))

\* total count of a term over the analyzed documents
TermFrequency(analyzed, term) ==
    SumSeq([i \in 1..Len(analyzed) |-> Count(analyzed[i], term)])

\* the vocabulary: every term, or the max_features most frequent ones
LimitFeatures(analyzed, terms) ==
    IF Cardinality(terms) <= max_features THEN terms
    ELSE CHOOSE kept \in SUBSET terms :
            /\ Cardinality(kept) = max_features
            /\ \A t \in kept, u \in terms \ kept :
                   TermFrequency(analyzed, t) >= TermFrequency(analyzed, u)

FitVocabulary(analyzed) ==
    LimitFeatures(analyzed, UNION {Range(analyzed[i]) : i \in 1..Len(analyzed)})

DocumentFrequency(analyzed, term) ==
    Cardinality({i \in 1..Len(analyzed) : \E j \in 1..Len(analyzed[i]) :
                                             analyzed[i][j] = term})

\* 10^6 * ln(k), k = 1..8
LnMicro == <<0, 693147, 1098612, 1386294, 1609438, 1791759, 1945910, 2079442>>

\* smooth_idf: idf(t) = ln((1 + n) / (1 + df(t))) + 1, times Scale
FitIdf(analyzed, vocabulary) ==
    [t \in vocabulary |->
        (LnMicro[1 + Len(analyzed)] - LnMicro[1 + DocumentFrequency(analyzed, t)])
            \div Scale
        + Scale]

RECURSIVE SumFn(_, _)
SumFn(f, S) ==
    IF S = {} THEN 0
    ELSE LET x == CHOOSE y \in S : TRUE IN f[x] + SumFn(f, S \ {x})

RECURSIVE ISqrtBetween(_, _, _)
ISqrtBetween(x, lo, hi) ==
    IF hi - lo <= 1 THEN lo
    ELSE LET mid == (lo + hi) \div 2
         IN  IF mid * mid <= x THEN ISqrtBetween(x, mid, hi)
             ELSE ISqrtBetween(x, lo, mid)

ISqrt(x) == ISqrtBetween(x, 0, 46341)

\* norm='l2': a row divided by its Euclidean norm; a zero row is left as it is
Normalize(v) ==
    LET norm == ISqrt(SumFn([t \in DOMAIN v |-> v[t] * v[t]], DOMAIN v))
    IN  IF norm = 0 THEN v ELSE [t \in DOMAIN v |-> (v[t] * Scale) \div norm]

\* vectorizer.transform([doc])[0], doc given as its analyzed terms: a sparse row
\* over the fitted vocabulary;
\* terms outside the vocabulary are dropped
Transform(terms, vocabulary, idf) ==
    Normalize([t \in Range(terms) \cap vocabulary |-> Count(terms, t) * idf[t]])

Dot(a, b) ==
    SumFn([t \in DOMAIN a \cap DOMAIN b |-> a[t] * b[t]], DOMAIN a \cap DOMAIN b)

\* cosine_similarity(x, Y)[0]: one similarity per row of Y
cosine_similarity(x, Y) ==
    LET x_normalized == Normalize(x)
    IN  [i \in 1..Len(Y) |-> Dot(x_normalized, Normalize(Y[i]))]

\* a plausible slip: the rows of the previous fit are kept and only the documents
\* past them are added (the fit extends the fitted state instead of replacing it)
FitTransformIncremental(feature_texts) ==
    LET analyzed   == [i \in 1..Len(feature_texts) |-> Analyze(feature_texts[i])]
        vocabulary == FitVocabulary(analyzed)
        idf        == FitIdf(analyzed, vocabulary)
    IN  [vocabulary |-> vocabulary, idf |-> idf,
         rows |-> [i \in 1..Len(feature_texts) |->
                      IF i <= Len(embedding_vectors) THEN embedding_vectors[i]
                      ELSE Transform(analyzed[i], vocabulary, idf)]]

\* vectorizer.fit_transform(feature_texts): the vocabulary and idf weights
\* learned from the documents, and one row per document
FitTransform(feature_texts) ==
    LET analyzed   == [i \in 1..Len(feature_texts) |-> Analyze(feature_texts[i])]
        vocabulary == FitVocabulary(analyzed)
        idf        == FitIdf(analyzed, vocabulary)
    IN  [vocabulary |-> vocabulary, idf |-> idf,
         rows |-> [i \in 1..Len(feature_texts) |->
                      Transform(analyzed[i], vocabulary, idf)]]

\* what a fit reads of the database: its keys and feature strings, in order
Snapshot(database) ==
    [i \in 1..Len(database) |->
        [key |-> database[i].key, features |-> database[i].value.features]]

\* similarities.argsort(): an ascending order of the row indices; the default
\* sort kind is not stable, so equal similarities may come in either order
Argsort(similarities) ==
    LET n == Len(similarities)
    IN  { p \in [1..n -> 1..n] :
            /\ \A i, j \in 1..n : i # j => p[i] # p[j]
            /\ \A i \in 1..(n - 1) : similarities[p[i]] <= similarities[p[i + 1]] }

\* a[-k:] of Python: the last k elements; all of them when k = 0 or k >= len(a)
LastK(a, k) ==
    IF k = 0 \/ k >= Len(a) THEN a ELSE SubSeq(a, Len(a) - k + 1, Len(a))

-----------------------------------------------------------------------------
(* Call records *)

NoCall == [op |-> "none"]

-----------------------------------------------------------------------------
(* CodeEmbedder.__init__ *)

Init ==
    /\ function_database = <<>>
    /\ is_fitted = "absent"
    /\ vocabulary_ = {}
    /\ idf_ = <<>>
    /\ embedding_vectors = <<>>
    /\ set_order \in SetOrders
    /\ last = NoCall
    /\ fit_snapshot = <<>>

(* CodeEmbedder.add_function_to_database *)

\* a plausible slip: the insertion also re-fits the model
add_function_to_database_refit(function_node, quality_score) ==
    LET features    == extract_code_features(function_node)
        function_id == FunctionId(function_node, features)
        value       == [features |-> features, quality_score |-> quality_score,
                        name |-> function_node.name, node |-> function_node]
        database    == DictSet(function_database, function_id, value)
        fitted      == FitTransform([i \in 1..Len(database) |-> database[i].value.features])
    IN  /\ function_database' = database
        /\ vocabulary_' = fitted.vocabulary
        /\ idf_' = fitted.idf
        /\ embedding_vectors' = fitted.rows
        /\ is_fitted' = "True"
        /\ fit_snapshot' = Snapshot(database)
        /\ last' = [op |-> "add", node |-> function_node, quality_score |-> quality_score,
                    raised |-> "none", ret |-> function_id,
                    replaced |-> DictHas(function_database, function_id)]
        /\ UNCHANGED set_order

add_function_to_database(function_node, quality_score) ==
    LET features    == extract_code_features(function_node)
        function_id == FunctionId(function_node, features)
        value       == [features |-> features, quality_score |-> quality_score,
                        name |-> function_node.name, node |-> function_node]
    IN  /\ function_database' = DictSet(function_database, function_id, value)
        /\ last' = [op |-> "add", node |-> function_node, quality_score |-> quality_score,
                    raised |-> "none", ret |-> function_id,
                    replaced |-> DictHas(function_database, function_id)]
        /\ UNCHANGED <<is_fitted, vocabulary_, idf_, embedding_vectors, set_order,
                       fit_snapshot>>

(* CodeEmbedder.fit_embeddings *)

\* a plausible slip: no test for the empty database, the fitted flag set regardless
fit_embeddings_unguarded ==
    LET feature_texts == [i \in 1..Len(function_database) |->
                             function_database[i].value.features]
        fitted        == FitTransform(feature_texts)
    IN  /\ vocabulary_' = fitted.vocabulary
        /\ idf_' = fitted.idf
        /\ embedding_vectors' = fitted.rows
        /\ is_fitted' = "True"
        /\ fit_snapshot' = Snapshot(function_database)
        /\ last' = [op |-> "fit", raised |-> "none", ret |-> "learned"]
        /\ UNCHANGED <<function_database, set_order>>

fit_embeddings ==
    IF function_database = <<>>
    THEN /\ last' = [op |-> "fit", raised |-> "none", ret |-> "no database"]
         /\ UNCHANGED <<function_database, is_fitted, vocabulary_, idf_,
                        embedding_vectors, set_order, fit_snapshot>>
    ELSE LET feature_texts == [i \in 1..Len(function_database) |->
                                  function_database[i].value.features]
         IN  \E fitted \in {FitTransform(feature_texts)} :
             /\ vocabulary_' = fitted.vocabulary
             /\ idf_' = fitted.idf
             /\ embedding_vectors' = fitted.rows
             /\ is_fitted' = "True"
             /\ fit_snapshot' = Snapshot(function_database)
             /\ last' = [op |-> "fit", raised |-> "none", ret |-> "learned"]
             /\ UNCHANGED <<function_database, set_order>>

(* CodeEmbedder.find_similar_functions *)

\* the dict appended to results, built from the loop variables as the loop left them
Match(function_id, function_data, similarity) ==
    [function_id |-> function_id, name |-> function_data.name,
     similarity |-> similarity, quality_score |-> function_data.quality_score,
     features |-> function_data.features]

\* top_k is drawn from TopKs inside the action
find_similar_functions(target_function) ==
    /\ IF is_fitted = "absent"
       THEN \E top_k \in TopKs :
              last' = [op |-> "find", node |-> target_function, top_k |-> top_k,
                       raised |-> "AttributeError", ret |-> <<>>,
                       similarities |-> <<>>, similar_indices |-> <<>>]
       ELSE LET target_features == extract_code_features(target_function)
                target_vector   == Transform(Analyze(target_features),
                                             vocabulary_, idf_)
                function_ids    == DictKeys(function_database)
            IN  \* similarities = cosine_similarity(...), evaluated once
                \E similarities \in {cosine_similarity(target_vector, embedding_vectors)} :
                \E order \in Argsort(similarities), top_k \in TopKs :
                  LET similar_indices == Reverse(LastK(order, top_k))
                      \* the loop leaves idx, function_id and function_data at
                      \* the last of similar_indices; the append follows the loop
                      idx             == similar_indices[Len(similar_indices)]
                      function_id     == function_ids[idx]
                      function_data   == DictGet(function_database, function_id)
                  IN  last' = [op |-> "find", node |-> target_function,
                               top_k |-> top_k,
                               raised |-> IF similar_indices = <<>>
                                          THEN "UnboundLocalError" ELSE "none",
                               ret |-> IF similar_indices = <<>> THEN <<>>
                                       ELSE << Match(function_id, function_data,
                                                     similarities[idx]) >>,
                               similarities |-> similarities,
                               similar_indices |-> similar_indices]
    /\ UNCHANGED <<function_database, is_fitted, vocabulary_, idf_, embedding_vectors,
                   set_order, fit_snapshot>>

(* CodeEmbedder.extract_code_features, called directly *)

ExtractCodeFeatures(function_node) ==
    /\ last' = [op |-> "extract", node |-> function_node, raised |-> "none",
                ret |-> extract_code_features(function_node)]
    /\ UNCHANGED <<function_database, is_fitted, vocabulary_, idf_, embedding_vectors,
                   set_order, fit_snapshot>>

-----------------------------------------------------------------------------
(* EmbeddingAnalyzer, whose embedder is the CodeEmbedder above *)

\* Source texts given to analyze_with_embeddings: whether ast.parse accepts the
\* text, and the FunctionDef nodes ast.walk(tree) yields, in order
Codes ==
    { [valid |-> FALSE, functions |-> <<>>],
      [valid |-> TRUE,  functions |-> <<>>],
      [valid |-> TRUE,  functions |-> <<calculate_total>>],
      [valid |-> TRUE,  functions |-> <<filter_query_orders_6, calculate_total>>] }

high_quality_indicators ==
    {"func_calculate", "func_process", "func_validate", "return_single", "args_2", "args_3"}

low_quality_indicators ==
    {"high_conditional_complexity", "high_loop_complexity", "args_5", "args_6", "args_7"}

RECURSIVE JoinComma(_)
JoinComma(items) ==
    IF items = <<>> THEN ""
    ELSE IF Len(items) = 1 THEN items[1]
    ELSE items[1] \o ", " \o JoinComma(Tail(items))

rule_based_analysis(function) ==
    (IF function.nargs > 4
     THEN << "Function " \o function.name \o " : many arguments ("
             \o ToString(function.nargs) \o ")" >>
     ELSE <<>>)
    \o (IF function.nbody > 30
        THEN << "Function " \o function.name \o " : long function ("
                \o ToString(function.nbody) \o " lines)" >>
        ELSE <<>>)

pattern_based_analysis(function) ==
    LET feature_list    == extract_code_features(function)
        quality_matches == SelectSeq(feature_list, LAMBDA f : f \in high_quality_indicators)
        issues_matches  == SelectSeq(feature_list, LAMBDA f : f \in low_quality_indicators)
    IN  (IF quality_matches # <<>>
         THEN << "Good patterns : " \o JoinComma(quality_matches) >> ELSE <<>>)
        \o (IF issues_matches # <<>>
            THEN << "Concerning patterns : " \o JoinComma(issues_matches) >> ELSE <<>>)

\* the dict analyze_with_embeddings starts from
EmptyReport ==
    [rule_based_issues |-> <<>>, pattern_based_insights |-> <<>>,
     similar_function_analysis |-> <<>>, overall_quality_score |-> 10]

\* What the call does.  A syntax error returns the error dict.  With no function
\* definition the loop body, which holds the return statement, never runs: the
\* call returns None.  Otherwise the first iteration extends rule_based_issues,
\* computes the pattern insights and calls analysis_results.extend, which a dict
\* does not have: AttributeError leaves the call and the dict is lost.
AnalyzeOutcome(code) ==
    IF ~code.valid
    THEN [raised |-> "none", ret |-> [kind |-> "error"]]
    ELSE IF code.functions = <<>>
    THEN [raised |-> "none", ret |-> [kind |-> "None"]]
    ELSE LET function         == code.functions[1]
             rule_issues      == rule_based_analysis(function)
             analysis_results == [EmptyReport EXCEPT !.rule_based_issues =
                                      @ \o rule_issues]
             pattern_insights == pattern_based_analysis(function)
         IN  [raised |-> "AttributeError",
              ret |-> [kind |-> "raised", analysis_results |-> analysis_results,
                       pattern_insights |-> pattern_insights]]

analyze_with_embeddings(code) ==
    /\ last' = [op |-> "analyze", code |-> code,
                raised |-> AnalyzeOutcome(code).raised, ret |-> AnalyzeOutcome(code).ret]
    /\ UNCHANGED <<function_database, is_fitted, vocabulary_, idf_, embedding_vectors,
                   set_order, fit_snapshot>>

-----------------------------------------------------------------------------

Next ==
    \/ \E f \in Nodes, q \in QualityScores : add_function_to_database(f, q)
    \/ \E f \in Nodes : ExtractCodeFeatures(f)
    \/ fit_embeddings
    \/ \E f \in Nodes : find_similar_functions(f)
    \/ \E code \in Codes : analyze_with_embeddings(code)

Spec == Init /\ [][Next]_vars

-----------------------------------------------------------------------------
(* extract_code_features on its own: the function definitions it is given  *)
(* are built from statements, and the call is made once on each            *)

\* the most statements in the body of a function definition
MaxBody == 2

\* an ast node: its class and its child nodes in the order of its fields; the
\* nodes of classes that hold none of the tested classes (Name, Constant,
\* arguments, operators) are left out
AstNode(class, children) == [class |-> class, children |-> children]

Leaf(class) == AstNode(class, <<>>)

Statements ==
    { Leaf("Pass"),                                        \* pass
      Leaf("Return"),                                      \* return a
      AstNode("Assign", <<Leaf("Subscript")>>),            \* x = a[0]
      AstNode("AugAssign", <<Leaf("BinOp")>>),             \* x += a * b
      AstNode("Expr", <<Leaf("Call")>>),                   \* g(a)
      \* if a > b: return a
      AstNode("If", <<Leaf("Compare"), Leaf("Return")>>),
      \* if a > b:
      \*     if b > c: return a
      AstNode("If", <<Leaf("Compare"),
                      AstNode("If", <<Leaf("Compare"), Leaf("Return")>>)>>),
      \* for x in a: t += x * x
      AstNode("For", <<AstNode("AugAssign", <<Leaf("BinOp")>>)>>),
      \* for x in a:
      \*     if x > b:
      \*         while x > c:
      \*             if c > d: return x
      AstNode("For", <<AstNode("If", <<Leaf("Compare"),
          AstNode("While", <<Leaf("Compare"),
              AstNode("If", <<Leaf("Compare"), Leaf("Return")>>)>>)>>)>>),
      \* def g(): return a
      AstNode("FunctionDef", <<Leaf("Return")>>) }

Bodies == UNION {[1..n -> Statements] : n \in 1..MaxBody}

\* the classes the extraction tests for with isinstance
TestedClasses == OperationClasses \cup {"If", "For", "While", "Return"}

\* ast.walk: a node leaves the front of the queue, its children join the back
RECURSIVE WalkQueue(_)
WalkQueue(todo) ==
    IF todo = <<>> THEN <<>>
    ELSE <<Head(todo).class>> \o WalkQueue(Tail(todo) \o Head(todo).children)

\* the classes ast.walk(function_node) yields after the function node itself
Walk(body) == SelectSeq(WalkQueue(body), LAMBDA c : c \in TestedClasses)

\* def f(<nargs positional parameters>[, *args][, **kwargs]): <body>
FunctionDefs ==
    { [name |-> "f", nargs |-> n, vararg |-> v, kwarg |-> k,
       nbody |-> Len(b), walk |-> Walk(b), body |-> b] :
          n \in 0..2, v \in BOOLEAN, k \in BOOLEAN, b \in Bodies }

ExtractInit ==
    /\ function_database = <<>>
    /\ is_fitted = "absent"
    /\ vocabulary_ = {}
    /\ idf_ = <<>>
    /\ embedding_vectors = <<>>
    /\ set_order \in SetOrders
    /\ fit_snapshot = <<>>
    /\ \E f \in FunctionDefs : last = [op |-> "call", node |-> f]

ExtractNext ==
    /\ last.op = "call"
    /\ ExtractCodeFeatures(last.node)

ExtractSpec == ExtractInit /\ [][ExtractNext]_vars

-----------------------------------------------------------------------------
(* Properties *)

Min(a, b) == IF a < b THEN a ELSE b

\* the rows in the order the ranking is specified to have: similarity
\* descending, equal similarities by ascending row index
RankedRows(similarities) ==
    LET n == Len(similarities)
    IN  CHOOSE p \in [1..n -> 1..n] :
            \A i, j \in 1..n :
                i < j => \/ similarities[p[i]] > similarities[p[j]]
                         \/ similarities[p[i]] = similarities[p[j]] /\ p[i] < p[j]

\* the findings of every function of a text, in order
RECURSIVE Flatten(_)
Flatten(lists) == IF lists = <<>> THEN <<>> ELSE Head(lists) \o Flatten(Tail(lists))

\* C1: on an embedder on which no fit has ever succeeded, find_similar_functions
\* returns an empty sequence and raises no exception, whatever the node and top_k.
C1_UnfittedFindReturnsEmpty ==
    (last.op = "find" /\ is_fitted = "absent")
        => (last.raised = "none" /\ last.ret = <<>>)

\* C2: after a successful fit, find_similar_functions(f, top_k) returns exactly
\* min(top_k, fitted row count) matches, for every top_k >= 0.
C2_TopKLength ==
    (last.op = "find" /\ is_fitted = "True")
        => /\ last.raised = "none"
           /\ Len(last.ret) = Min(last.top_k, Len(embedding_vectors))

\* C3: after a successful fit, the matches are the fitted rows of highest
\* similarity to the query, by similarity descending and, among equal
\* similarities, by ascending row index: the i-th match is the i-th row of that
\* ranking, so the first match has the maximum similarity and is the
\* earliest-inserted record among those with the maximum.
C3_TopKRanking ==
    (last.op = "find" /\ is_fitted = "True")
        => LET ranked == RankedRows(last.similarities)
           IN  /\ last.raised = "none"
               /\ Len(last.ret) <= Len(embedding_vectors)
               /\ \A i \in 1..Len(last.ret) :
                      /\ last.ret[i].function_id = fit_snapshot[ranked[i]].key
                      /\ last.ret[i].similarity = last.similarities[ranked[i]]

\* C4: after a fit followed by insertions with no re-fit, find_similar_functions
\* succeeds and every match is a record of the corpus as the last fit read it:
\* its row index is within the snapshot and its id and features are those fitted
\* into that row.
C4_StaleQueryUsesSnapshot ==
    (last.op = "find" /\ is_fitted = "True")
        => /\ last.raised = "none"
           /\ \A i \in 1..Len(last.similar_indices) :
                  last.similar_indices[i] \in 1..Len(fit_snapshot)
           /\ \A i \in 1..Len(last.ret) :
                  \E row \in 1..Len(fit_snapshot) :
                      /\ fit_snapshot[row].key = last.ret[i].function_id
                      /\ fit_snapshot[row].features = last.ret[i].features

\* C5: fit_embeddings on an empty corpus raises nothing and leaves the fitted
\* flag, the vocabulary, the idf weights and the document matrix as they were;
\* an unfitted model stays unfitted.
C5_FitOnEmptyIsNoOp ==
    [][ (function_database = <<>> /\ last'.op = "fit")
            => /\ last'.raised = "none"
               /\ UNCHANGED <<function_database, is_fitted, vocabulary_, idf_,
                              embedding_vectors>>
               /\ (is_fitted = "absent" => is_fitted' = "absent") ]_vars

C5_Witness ==
    /\ last.op = "fit"
    /\ last.ret = "no database"
    /\ function_database = <<>>
    /\ is_fitted = "absent"

\* C6: whenever the model is fitted, the document matrix has one row per record
\* the corpus held at the last successful fit, row i being the i-th record in
\* insertion order at that moment, weighted in the vocabulary and idf of that
\* same fit: each fit replaces the fitted state in full.
C6_FittedMatrixIsSnapshot ==
    is_fitted = "True"
        => LET analyzed == [i \in 1..Len(fit_snapshot) |->
                               Analyze(fit_snapshot[i].features)]
           IN  /\ Len(fit_snapshot) >= 1
               /\ Len(embedding_vectors) = Len(fit_snapshot)
               /\ Len(fit_snapshot) <= Len(function_database)
               /\ \A i \in 1..Len(fit_snapshot) :
                      fit_snapshot[i].key = function_database[i].key
               /\ vocabulary_ = FitVocabulary(analyzed)
               /\ idf_ = FitIdf(analyzed, vocabulary_)
               /\ \A i \in 1..Len(fit_snapshot) :
                      embedding_vectors[i] = Transform(analyzed[i], vocabulary_, idf_)

C6_Witness ==
    /\ last.op = "fit"
    /\ is_fitted = "True"
    /\ Len(embedding_vectors) = 2
    /\ Len(function_database) = 2

\* C7: add_function_to_database leaves the fitted flag, the vocabulary, the idf
\* weights and the document matrix unchanged; it changes only the corpus.
C7_AddDoesNotRefit ==
    [][ last'.op = "add"
            => UNCHANGED <<is_fitted, vocabulary_, idf_, embedding_vectors,
                           set_order>> ]_vars

C7_Witness ==
    /\ last.op = "add"
    /\ is_fitted = "True"
    /\ Len(function_database) > Len(embedding_vectors)

C9_IdsEqualIffSameNameAndFeatures ==
    [][ last'.op = "add"
            => \A i \in 1..Len(function_database) :
                   (function_database[i].key = last'.ret)
                   <=> /\ function_database[i].value.name = last'.node.name
                       /\ function_database[i].value.features
                              = DictGet(function_database', last'.ret).features ]_vars

\* C10: analyze_with_embeddings raises nothing; for valid code it returns a
\* report with the rule-based issues, the pattern insights, the similarity
\* insights and an overall score, the findings of every function merged into
\* it, fitted or not; for invalid code it returns an error report.
C10_AnalyzeReturnsReport ==
    last.op = "analyze"
        => /\ last.raised = "none"
           /\ last.code.valid
                  => /\ last.ret.kind = "report"
                     /\ last.ret.analysis_results.rule_based_issues
                            = Flatten([i \in 1..Len(last.code.functions) |->
                                          rule_based_analysis(last.code.functions[i])])
                     /\ last.ret.analysis_results.pattern_based_insights
                            = Flatten([i \in 1..Len(last.code.functions) |->
                                          pattern_based_analysis(last.code.functions[i])])
           /\ ~last.code.valid => last.ret.kind = "error"

\* C11: the corpus is append-only.  A step that is not an add leaves it as it
\* is.  An add under a new id makes it one longer, the new record last; an add
\* under an existing id leaves its length and the record's position unchanged.
\* No step removes a record, moves one, or changes the name or the features of
\* a record already stored.
C11_CorpusAppendOnly ==
    [][ /\ Len(function_database') >= Len(function_database)
        /\ \A i \in 1..Len(function_database) :
               /\ function_database'[i].key = function_database[i].key
               /\ function_database'[i].value.name = function_database[i].value.name
               /\ function_database'[i].value.features
                      = function_database[i].value.features
        /\ last'.op = "add"
               => IF DictHas(function_database, last'.ret)
                  THEN Len(function_database') = Len(function_database)
                  ELSE /\ Len(function_database') = Len(function_database) + 1
                       /\ function_database'[Len(function_database')].key = last'.ret
        /\ last'.op # "add" => function_database' = function_database ]_vars

\* the nodes under a function definition in depth-first order, parents first
RECURSIVE DepthFirst(_)
DepthFirst(trees) ==
    IF trees = <<>> THEN <<>>
    ELSE <<Head(trees).class>> \o DepthFirst(Head(trees).children)
             \o DepthFirst(Tail(trees))

\* the distinct elements of a sequence, each where it first occurs
RECURSIVE FirstSeen(_)
FirstSeen(s) ==
    IF s = <<>> THEN <<>>
    ELSE LET before == FirstSeen(SubSeq(s, 1, Len(s) - 1))
         IN  IF s[Len(s)] \in Range(before) THEN before ELSE Append(before, s[Len(s)])

OperationTokens == {OperationToken(c) : c \in OperationClasses}

ComplexityTokens == {"High_conditional_complexity", "High_loop_complexity"}

ReturnTokens == {"return_none", "return_single", "return_multiple"}

\* C12: the operations channel of the extracted sequence holds each operation
\* kind present in the function once, in the order in which a depth-first
\* traversal of the function first meets them.
C12_OperationsFirstSeenOrder ==
    last.op = "extract"
        => LET kinds == FirstSeen(SelectSeq(DepthFirst(last.node.body),
                                            LAMBDA c : c \in OperationClasses))
           IN  SelectSeq(last.ret, LAMBDA t : t \in OperationTokens)
                   = [i \in 1..Len(kinds) |-> OperationToken(kinds[i])]

\* C13: the signature channel is func_<name>, args_<n> with n the number of
\* positional parameters, followed by one token of its own for a *args
\* parameter and one for a **kwargs parameter.
C13_SignatureChannel ==
    last.op = "extract"
        => LET signature == SelectSeq(last.ret, LAMBDA t :
                   t \notin OperationTokens \cup ComplexityTokens \cup ReturnTokens)
           IN  /\ Len(signature) = 2 + (IF last.node.vararg THEN 1 ELSE 0)
                                     + (IF last.node.kwarg THEN 1 ELSE 0)
               /\ signature[1] = "func_" \o last.node.name
               /\ signature[2] = "args_" \o ToString(last.node.nargs)
               /\ SubSeq(last.ret, 1, Len(signature)) = signature

\* C14: the extracted sequence is the signature tokens, then the operation
\* tokens, then the complexity tokens, then one return-pattern token, the only
\* one of the sequence: return_none, return_single or return_multiple as the
\* return statements under the function node number zero, one, or more.
C14_ChannelOrderAndReturnPattern ==
    last.op = "extract"
        => LET ret     == last.ret
               n       == Len(ret)
               returns == Count(DepthFirst(last.node.body), "Return")
           IN  /\ n >= 3
               /\ ret[1] = "func_" \o last.node.name
               /\ ret[2] = "args_" \o ToString(last.node.nargs)
               /\ ret[n] = IF returns = 0 THEN "return_none"
                           ELSE IF returns = 1 THEN "return_single"
                           ELSE "return_multiple"
               /\ \A i \in 1..(n - 1) : ret[i] \notin ReturnTokens
               /\ \A i \in 3..(n - 1) : ret[i] \in OperationTokens \cup ComplexityTokens
               /\ \A i, j \in 3..(n - 1) :
                      (ret[i] \in OperationTokens /\ ret[j] \in ComplexityTokens) => i < j

C14_Witness ==
    /\ last.op = "extract"
    /\ last.ret[Len(last.ret)] = "return_multiple"
    /\ Range(last.ret) \cap OperationTokens # {}
    /\ Range(last.ret) \cap ComplexityTokens # {}

\* C15: High_conditional_complexity is emitted, once, exactly when the function
\* holds more than 3 if statements, and High_loop_complexity, once, exactly
\* when its for and while loops together number more than 2; each is decided
\* on its own, and the conditional token comes first when both are emitted.
C15_ComplexityThresholds ==
    last.op = "extract"
        => LET nodes == DepthFirst(last.node.body)
               ifs   == Count(nodes, "If")
               loops == Count(nodes, "For") + Count(nodes, "While")
           IN  /\ Count(last.ret, "High_conditional_complexity")
                      = IF ifs > 3 THEN 1 ELSE 0
               /\ Count(last.ret, "High_loop_complexity")
                      = IF loops > 2 THEN 1 ELSE 0
               /\ \A i, j \in 1..Len(last.ret) :
                      (/\ last.ret[i] = "High_conditional_complexity"
                       /\ last.ret[j] = "High_loop_complexity") => i < j

C15_Witness ==
    /\ last.op = "extract"
    /\ Count(DepthFirst(last.node.body), "If") = 4
    /\ "High_conditional_complexity" \in Range(last.ret)
    /\ "High_loop_complexity" \in Range(last.ret)

====
